---- MODULE Spec2Model ----
(***************************************************************************)
(* A model of the compost quality engine (package cqe): the Index class    *)
(* (category limits, direction, score), the Property classes, the Compost  *)
(* aggregate with its compliance and index queries, and CompostFactory.    *)
(*                                                                         *)
(* Numbers.  Category limits, weights and compliance limits are integers.  *)
(* A property value is a rational [n |-> numerator, d |-> denominator > 0],*)
(* because the derived values are quotients and decimal combinations of    *)
(* the inputs; Python's float rounding is not modelled.                    *)
(*                                                                         *)
(* Each behaviour follows one object from its construction: an Index, a    *)
(* single property, or a Compost built by the factory.  Objects do not     *)
(* share state, every property owns the Index built for it.                *)
(***************************************************************************)
EXTENDS Integers, Sequences, FiniteSets, TLC

VARIABLES index, prop, compost, raised, result, lastOp,
          scores, caller_inputs, draft

vars == <<index, prop, compost, raised, result, lastOp, scores, caller_inputs, draft>>

\* ---------------------------------------------------------------- bounds
MaxVal == 4          \* measured values range over -1 .. MaxVal
MaxBoundary == 2     \* category limits given to Index(...): 1, 3, ...
MaxLen == 5          \* longest category_limits list given to Index(...)
MaxWeight == 2       \* weights range over 0 .. MaxWeight

\* ------------------------------------------------------------- constants
MAX_SCORE == 5
Inf == 1000000       \* float("inf"): above every number of the model

INCREASING == "increasing"
DECREASING == "decreasing"
CLEAN == "clean"
FERTILITY == "fertility"

None == [cls |-> "None"]

\* ------------------------------------------------------------- rationals
Q(i) == [n |-> i, d |-> 1]

RECURSIVE gcd(_, _)
gcd(a, b) == IF b = 0 THEN a ELSE gcd(b, a % b)

Abs(i) == IF i < 0 THEN 0 - i ELSE i

\* the number n / d (d # 0) in lowest terms with a positive denominator
Ratio(n, d) ==
    LET g == gcd(Abs(n), Abs(d))
        sign == IF d < 0 THEN 0 - 1 ELSE 1
    IN [n |-> sign * (n \div g), d |-> sign * (d \div g)]

QLtI(v, i) == v.n < i * v.d
QGtI(v, i) == v.n > i * v.d
QLeqI(v, i) == v.n <= i * v.d
QGeqI(v, i) == v.n >= i * v.d

Values == {Q(i) : i \in -1..MaxVal}
Boundaries == {2 * i - 1 : i \in 1..MaxBoundary}
Weights == 0..MaxWeight
IndexTypes == {CLEAN, FERTILITY}
\* lists of the lengths the tests and the properties use: 3, 4, 5
LimitLists == UNION {[1..k -> Boundaries] : k \in 3..MaxLen}

\* ------------------------------------------------------- sorted(), Index
RECURSIVE insert(_, _)
insert(x, s) ==
    IF s = <<>> THEN <<x>>
    ELSE IF x < Head(s) THEN <<x>> \o s
    ELSE <<Head(s)>> \o insert(x, Tail(s))

RECURSIVE sorted(_)
sorted(s) == IF s = <<>> THEN <<>> ELSE insert(Head(s), sorted(Tail(s)))

reversed(s) == [i \in 1..Len(s) |-> s[Len(s) + 1 - i]]

sorted_reverse(s) == reversed(sorted(s))

Raise(type, at) == [cls |-> "Error", type |-> type, at |-> at]

IsError(r) == r.cls = "Error"

\* mutation: the descending test comes first
Index_reverse_first(typ, weight, category_limits) ==
    IF category_limits = sorted_reverse(category_limits)
    THEN [cls |-> "Index", typ |-> typ, weight |-> weight,
          category_limits |-> category_limits, category_type |-> DECREASING]
    ELSE IF category_limits = sorted(category_limits)
    THEN [cls |-> "Index", typ |-> typ, weight |-> weight,
          category_limits |-> category_limits, category_type |-> INCREASING]
    ELSE Raise("ValueError", "Index.__post_init__")

\* Index(typ, weight, category_limits): the dataclass __init__ followed by
\* __post_init__; score is declared but not set, so the object has no
\* score attribute until set_score runs.
Index(typ, weight, category_limits) ==
    IF category_limits = sorted(category_limits)
    THEN [cls |-> "Index", typ |-> typ, weight |-> weight,
          category_limits |-> category_limits, category_type |-> INCREASING]
    ELSE IF category_limits = sorted_reverse(category_limits)
    THEN [cls |-> "Index", typ |-> typ, weight |-> weight,
          category_limits |-> category_limits, category_type |-> DECREASING]
    ELSE Raise("ValueError", "Index.__post_init__")

HasScore(idx) == "score" \in DOMAIN idx

\* mutation: a value equal to a limit is counted too
RECURSIVE score_loop_inclusive(_, _, _, _)
score_loop_inclusive(limits, category_type, value, score) ==
    IF limits = <<>> THEN score
    ELSE score_loop_inclusive(Tail(limits), category_type, value,
            IF category_type = INCREASING
            THEN (IF QGeqI(value, Head(limits)) THEN score - 1 ELSE score)
            ELSE (IF QLeqI(value, Head(limits)) THEN score - 1 ELSE score))

\* the two for loops of set_score, from the score reached so far
RECURSIVE score_loop(_, _, _, _)
score_loop(limits, category_type, value, score) ==
    IF limits = <<>> THEN score
    ELSE score_loop(Tail(limits), category_type, value,
            IF category_type = INCREASING
            THEN (IF QGtI(value, Head(limits)) THEN score - 1 ELSE score)
            ELSE (IF QLtI(value, Head(limits)) THEN score - 1 ELSE score))

\* mutation: the count starts from the number of limits plus one
set_score_from_count(idx, value) ==
    [cls |-> "Index", typ |-> idx.typ, weight |-> idx.weight,
     category_limits |-> idx.category_limits,
     category_type |-> idx.category_type,
     score |-> score_loop(idx.category_limits, idx.category_type, value,
                          Len(idx.category_limits) + 1)]

\* mutation: the score is not reset before the loops
set_score_no_reset(idx, value) ==
    [cls |-> "Index", typ |-> idx.typ, weight |-> idx.weight,
     category_limits |-> idx.category_limits,
     category_type |-> idx.category_type,
     score |-> score_loop(idx.category_limits, idx.category_type, value,
                          IF HasScore(idx) THEN idx.score ELSE MAX_SCORE)]

set_score(idx, value) ==
    [cls |-> "Index", typ |-> idx.typ, weight |-> idx.weight,
     category_limits |-> idx.category_limits,
     category_type |-> idx.category_type,
     score |-> score_loop(idx.category_limits, idx.category_type, value,
                          MAX_SCORE)]

\* ------------------------------------------------- Limit and properties
Limit(min, max) ==
    IF min > max THEN Raise("ValueError", "Limit.__post_init__")
    ELSE [cls |-> "Limit", min |-> min, max |-> max]

DefaultLimit == Limit(0, Inf)

Property(name, value, theoretical_limit, compliance_limit, show_compliance, use_compliance) ==
    [cls |-> "Property", name |-> name, value |-> value,
     theoretical_limit |-> theoretical_limit,
     compliance_limit |-> compliance_limit,
     show_compliance |-> show_compliance,
     use_compliance |-> use_compliance]

\* mutation: the endpoints are excluded
is_compliant_strict(p) ==
    /\ QGtI(p.value, p.compliance_limit.min)
    /\ QLtI(p.value, p.compliance_limit.max)

is_compliant(p) ==
    /\ QGeqI(p.value, p.compliance_limit.min)
    /\ QLeqI(p.value, p.compliance_limit.max)

\* mutation: the typ of the Index is not checked
NutritionalProperty_any_kind(name, value, theoretical_limit, compliance_limit, show_compliance, use_compliance, fertilization_index) ==
    IF Len(fertilization_index.category_limits) # 4
    THEN Raise("ValueError", "NutritionalProperty.__post_init__")
    ELSE [cls |-> "NutritionalProperty", name |-> name, value |-> value,
          theoretical_limit |-> theoretical_limit,
          compliance_limit |-> compliance_limit,
          show_compliance |-> show_compliance,
          use_compliance |-> use_compliance,
          fertilization_index |-> set_score(fertilization_index, value)]

NutritionalProperty(name, value, theoretical_limit, compliance_limit, show_compliance, use_compliance, fertilization_index) ==
    IF fertilization_index.typ # FERTILITY
    THEN Raise("ValueError", "NutritionalProperty.__post_init__")
    ELSE IF Len(fertilization_index.category_limits) # 4
    THEN Raise("ValueError", "NutritionalProperty.__post_init__")
    ELSE [cls |-> "NutritionalProperty", name |-> name, value |-> value,
          theoretical_limit |-> theoretical_limit,
          compliance_limit |-> compliance_limit,
          show_compliance |-> show_compliance,
          use_compliance |-> use_compliance,
          fertilization_index |-> set_score(fertilization_index, value)]

\* mutation: the number of category limits is not checked
HeavyMetalProperty_no_count(name, value, theoretical_limit, compliance_limit, show_compliance, use_compliance, clean_index) ==
    IF clean_index.typ # CLEAN
    THEN Raise("ValueError", "HeavyMetalProperty.__post_init__")
    ELSE [cls |-> "HeavyMetalProperty", name |-> name, value |-> value,
          theoretical_limit |-> theoretical_limit,
          compliance_limit |-> compliance_limit,
          show_compliance |-> show_compliance,
          use_compliance |-> use_compliance,
          clean_index |-> set_score(clean_index, value)]

HeavyMetalProperty(name, value, theoretical_limit, compliance_limit, show_compliance, use_compliance, clean_index) ==
    IF clean_index.typ # CLEAN
    THEN Raise("ValueError", "HeavyMetalProperty.__post_init__")
    ELSE IF Len(clean_index.category_limits) # 5
    THEN Raise("ValueError", "HeavyMetalProperty.__post_init__")
    ELSE [cls |-> "HeavyMetalProperty", name |-> name, value |-> value,
          theoretical_limit |-> theoretical_limit,
          compliance_limit |-> compliance_limit,
          show_compliance |-> show_compliance,
          use_compliance |-> use_compliance,
          clean_index |-> set_score(clean_index, value)]

\* NutritionalProperty.set_score / HeavyMetalProperty.set_score
prop_set_score(p) ==
    IF p.cls = "NutritionalProperty"
    THEN [p EXCEPT !.fertilization_index = set_score(@, p.value)]
    ELSE [p EXCEPT !.clean_index = set_score(@, p.value)]

IsScored(p) == p.cls \in {"NutritionalProperty", "HeavyMetalProperty"}

IndexOf(p) ==
    IF p.cls = "NutritionalProperty" THEN p.fertilization_index
    ELSE p.clean_index

\* the exception raised by the first failing argument, in evaluation order
RECURSIVE FirstError(_)
FirstError(rs) ==
    IF rs = <<>> THEN None
    ELSE IF IsError(Head(rs)) THEN Head(rs)
    ELSE FirstError(Tail(rs))

\* ------------------------------------------------------ Compost, queries
BasicNames == {"moisture", "ph", "conductivity", "bulk_density"}
NutritionalNames == {"organic_matter", "nitrogen", "phosphorus", "potassium"}
HeavyMetalNames == {"zinc", "copper", "cadmium", "lead", "chromium",
                    "nickel", "arsenic", "mercury"}
DerivedFields == {"cn_ratio", "npk_ratio"}

Compost(properties, nutritional_properties, heavy_metal_properties, derived_properties) ==
    [cls |-> "Compost", properties |-> properties,
     nutritional_properties |-> nutritional_properties,
     heavy_metal_properties |-> heavy_metal_properties,
     derived_properties |-> derived_properties]

\* sum(f[k] for k in S), Python's sum over the values of a group
RECURSIVE sum(_, _)
sum(S, f) ==
    IF S = {} THEN 0
    ELSE LET k == CHOOSE x \in S : TRUE IN f[k] + sum(S \ {k}, f)

\* mutation: a zero total weight gives 0 instead of an error
Divide_default(num, den) ==
    IF den = 0 THEN [cls |-> "float"] @@ Q(0)
    ELSE [cls |-> "float"] @@ Ratio(num, den)

Divide(num, den) ==
    IF den = 0 THEN Raise("ZeroDivisionError", "truediv")
    ELSE [cls |-> "float"] @@ Ratio(num, den)

\* CompostNutritionalProperties.fertility_index: self.__dict__ holds the
\* four fields of the nutritional group and nothing else
fertility_index(nutritional_properties) ==
    LET props == nutritional_properties
        num == sum(DOMAIN props,
                   [k \in DOMAIN props |->
                       props[k].fertilization_index.weight
                         * props[k].fertilization_index.score])
        den == sum(DOMAIN props,
                   [k \in DOMAIN props |-> props[k].fertilization_index.weight])
    IN Divide(num, den)

\* mutation: the scores are summed without their weights
clean_index_unweighted(heavy_metal_properties) ==
    LET props == heavy_metal_properties
        num == sum(DOMAIN props,
                   [k \in DOMAIN props |-> props[k].clean_index.score])
        den == sum(DOMAIN props,
                   [k \in DOMAIN props |-> props[k].clean_index.weight])
    IN Divide(num, den)

clean_index(heavy_metal_properties) ==
    LET props == heavy_metal_properties
        num == sum(DOMAIN props,
                   [k \in DOMAIN props |->
                       props[k].clean_index.weight * props[k].clean_index.score])
        den == sum(DOMAIN props,
                   [k \in DOMAIN props |-> props[k].clean_index.weight])
    IN Divide(num, den)

compost_is_compliant(c) ==
    /\ \A k \in DOMAIN c.properties :
          c.properties[k].use_compliance => is_compliant(c.properties[k])
    /\ \A k \in DOMAIN c.nutritional_properties :
          c.nutritional_properties[k].use_compliance
             => is_compliant(c.nutritional_properties[k])
    /\ \A k \in DOMAIN c.heavy_metal_properties :
          c.heavy_metal_properties[k].use_compliance
             => is_compliant(c.heavy_metal_properties[k])
    /\ \A k \in DOMAIN c.derived_properties :
          c.derived_properties[k].use_compliance
             => is_compliant(c.derived_properties[k])

\* --------------------------------------------------------- CompostFactory
\* configs: property name -> [compliance_limit, weight, category_limits];
\* inputs: property name -> value.  A name outside the DOMAIN is a KeyError.
create_limit_from_config(config, name) ==
    IF name \notin DOMAIN config
    THEN Raise("KeyError", "create_limit_from_config")
    ELSE Limit(config[name].compliance_limit[1],
               config[name].compliance_limit[2])

create_index(name, typ, config) ==
    IF name \notin DOMAIN config THEN Raise("KeyError", "create_index")
    ELSE Index(typ, config[name].weight, config[name].category_limits)

create_property(name, config, inputs) ==
    IF name \notin DOMAIN inputs THEN Raise("KeyError", "create_property")
    ELSE LET compliance_limit == create_limit_from_config(config, name) IN
         IF IsError(compliance_limit) THEN compliance_limit
         ELSE Property(name, inputs[name], DefaultLimit, compliance_limit,
                       TRUE, TRUE)

create_nutritional_property(name, config, inputs) ==
    IF name \notin DOMAIN inputs
    THEN Raise("KeyError", "create_nutritional_property")
    ELSE LET compliance_limit == create_limit_from_config(config, name)
             idx == create_index(name, FERTILITY, config)
             e == FirstError(<<compliance_limit, idx>>)
         IN IF IsError(e) THEN e
            ELSE NutritionalProperty(name, inputs[name], DefaultLimit,
                                     compliance_limit, TRUE, TRUE, idx)

\* mutation: a missing input is read as 0
create_heavy_metal_property_default(name, config, inputs) ==
    LET value == IF name \in DOMAIN inputs THEN inputs[name] ELSE Q(0)
        compliance_limit == create_limit_from_config(config, name)
        idx == create_index(name, CLEAN, config)
        e == FirstError(<<compliance_limit, idx>>)
    IN IF IsError(e) THEN e
       ELSE HeavyMetalProperty(name, value, DefaultLimit,
                               compliance_limit, TRUE, TRUE, idx)

create_heavy_metal_property(name, config, inputs) ==
    IF name \notin DOMAIN inputs
    THEN Raise("KeyError", "create_heavy_metal_property")
    ELSE LET compliance_limit == create_limit_from_config(config, name)
             idx == create_index(name, CLEAN, config)
             e == FirstError(<<compliance_limit, idx>>)
         IN IF IsError(e) THEN e
            ELSE HeavyMetalProperty(name, inputs[name], DefaultLimit,
                                    compliance_limit, TRUE, TRUE, idx)

\* nitrogen + 2.29 * phosphorus + 1.21 * potassium
npk_calculator(inputs) ==
    IF ~ ({"nitrogen", "phosphorus", "potassium"} \subseteq DOMAIN inputs)
    THEN Raise("KeyError", "npk_calculator")
    ELSE LET ni == inputs["nitrogen"]
             ph == inputs["phosphorus"]
             po == inputs["potassium"]
         IN Ratio(100 * ni.n * ph.d * po.d + 229 * ph.n * ni.d * po.d
                     + 121 * po.n * ni.d * ph.d,
                  100 * ni.d * ph.d * po.d)

\* organic_matter / nitrogen
cn_calculator(inputs) ==
    IF ~ ({"organic_matter", "nitrogen"} \subseteq DOMAIN inputs)
    THEN Raise("KeyError", "cn_calculator")
    ELSE LET om == inputs["organic_matter"]
             ni == inputs["nitrogen"]
         IN IF ni.n = 0 THEN Raise("ZeroDivisionError", "cn_calculator")
            ELSE Ratio(om.n * ni.d, om.d * ni.n)

create_derived_property(name, config, inputs) ==
    IF name \notin {"cn_ratio", "npk"}
    THEN Raise("ValueError", "create_derived_property")
    ELSE LET value == IF name = "cn_ratio" THEN cn_calculator(inputs)
                      ELSE npk_calculator(inputs)
         IN IF "cls" \in DOMAIN value THEN value
            ELSE IF name = "cn_ratio"
            THEN create_nutritional_property(name, config, [k \in {name} |-> value])
            ELSE create_property(name, config, [k \in {name} |-> value])

BasicOrder == <<"moisture", "ph", "conductivity", "bulk_density">>
NutritionalOrder == <<"organic_matter", "nitrogen", "phosphorus", "potassium">>
HeavyMetalOrder == <<"zinc", "copper", "cadmium", "lead", "chromium",
                     "nickel", "arsenic", "mercury">>

create_from_yaml(configs, inputs) ==
    LET properties ==
            [k \in BasicNames |-> create_property(k, configs, inputs)]
        nutritional_properties ==
            [k \in NutritionalNames |->
                create_nutritional_property(k, configs, inputs)]
        heavy_metal_properties ==
            [k \in HeavyMetalNames |->
                create_heavy_metal_property(k, configs, inputs)]
        cn_ratio == create_derived_property("cn_ratio", configs, inputs)
        npk_ratio == create_derived_property("npk", configs, inputs)
        e == FirstError(
                [i \in 1..4 |-> properties[BasicOrder[i]]]
                \o [i \in 1..4 |-> nutritional_properties[NutritionalOrder[i]]]
                \o [i \in 1..8 |-> heavy_metal_properties[HeavyMetalOrder[i]]]
                \o <<cn_ratio, npk_ratio>>)
    IN IF IsError(e) THEN e
       ELSE Compost(properties, nutritional_properties,
                    heavy_metal_properties,
                    [k \in DerivedFields |->
                        IF k = "cn_ratio" THEN cn_ratio ELSE npk_ratio])

\* ------------------------------------------- the draft in properties.py
\* Scores(weight, limits): category is declared but not set
Scores(weight, limits) ==
    IF limits = sorted(limits)
    THEN [cls |-> "Scores", weight |-> weight, limits |-> limits,
          ascending |-> TRUE]
    ELSE IF limits = sorted_reverse(limits)
    THEN [cls |-> "Scores", weight |-> weight, limits |-> limits,
          ascending |-> FALSE]
    ELSE Raise("ValueError", "Scores.__post_init__")

\* the two for loops of assign_category; the return leaves the loop
RECURSIVE category_loop(_, _, _, _)
category_loop(limits, ascending, value, category) ==
    IF limits = <<>> THEN category
    ELSE IF ascending /\ QLtI(value, Head(limits)) THEN category
    ELSE IF ~ ascending /\ QGtI(value, Head(limits)) THEN category
    ELSE category_loop(Tail(limits), ascending, value, category - 1)

\* mutation: the count starts from len(limits) + 1 whatever clean is
assign_category_plus_one(s, value, clean) ==
    [cls |-> "Scores", weight |-> s.weight, limits |-> s.limits,
     ascending |-> s.ascending,
     category |-> category_loop(s.limits, s.ascending, value,
                                Len(s.limits) + 1)]

assign_category(s, value, clean) ==
    [cls |-> "Scores", weight |-> s.weight, limits |-> s.limits,
     ascending |-> s.ascending,
     category |-> category_loop(s.limits, s.ascending, value,
                    IF clean THEN Len(s.limits) ELSE Len(s.limits) + 1)]

\* ------------------------------------ parameters.py and the draft Compost
\* The decimal tables of parameters.py (compliance_range, fi_class,
\* ci_class) are held in thousandths; a value is scaled by Milli before it
\* is compared with them.
units ==
    [k \in {"Moisture Content", "pH", "Electrical Conductivity",
            "Bulk Density", "Carbon", "Nitrogen", "Phosphorous", "Potassium",
            "Zinc", "Copper", "Cadmium", "Lead", "Chromium", "Nickel",
            "Ratio"} |->
        IF k \in {"Moisture Content", "Carbon", "Nitrogen", "Phosphorous",
                  "Potassium"} THEN "%"
        ELSE IF k \in {"pH", "Ratio"} THEN "-"
        ELSE IF k = "Electrical Conductivity" THEN "dS/m"
        ELSE IF k = "Bulk Density" THEN "g/cm3"
        ELSE "mg/kg"]

valid_range ==
    [k \in DOMAIN units |->
        IF k = "pH" THEN <<0, 14>>
        ELSE IF k = "Electrical Conductivity" THEN <<0, 20>>
        ELSE IF k = "Bulk Density" THEN <<0, 5>>
        ELSE IF k \in {"Zinc", "Copper", "Cadmium", "Lead", "Chromium",
                       "Nickel"} THEN <<0, 10000>>
        ELSE IF k = "Ratio" THEN <<0, 1000000>>
        ELSE <<0, 100>>]

compliance_range ==
    [k \in DOMAIN units |->
        CASE k = "Moisture Content" -> <<15000, 25000>>
          [] k = "pH" -> <<6500, 7500>>
          [] k = "Electrical Conductivity" -> <<0, 4000>>
          [] k = "Bulk Density" -> <<0, 1000>>
          [] k = "Carbon" -> <<12000, 100000>>
          [] k = "Nitrogen" -> <<800, 100000>>
          [] k = "Phosphorous" -> <<175, 100000>>
          [] k = "Potassium" -> <<333, 100000>>
          [] k = "Zinc" -> <<0, 1000000>>
          [] k = "Copper" -> <<0, 300000>>
          [] k = "Cadmium" -> <<0, 5000>>
          [] k = "Lead" -> <<0, 100000>>
          [] k = "Chromium" -> <<0, 50000>>
          [] k = "Nickel" -> <<0, 50000>>
          [] k = "Ratio" -> <<0, 20000>>]

fi_weight ==
    [k \in {"Carbon", "Nitrogen", "Phosphorous", "Potassium", "Ratio"} |->
        IF k = "Carbon" THEN 5 ELSE IF k = "Potassium" THEN 1 ELSE 3]

ci_weight ==
    [k \in {"Zinc", "Copper", "Cadmium", "Lead", "Chromium", "Nickel"} |->
        CASE k = "Zinc" -> 1 [] k = "Copper" -> 2 [] k = "Cadmium" -> 5
          [] k = "Lead" -> 3 [] k = "Chromium" -> 3 [] k = "Nickel" -> 1]

fi_class ==
    [k \in DOMAIN fi_weight |->
        CASE k = "Carbon" -> <<20050, 15050, 12050, 9050>>
          [] k = "Nitrogen" -> <<1250, 1050, 805, 505>>
          [] k = "Phosphorous" -> <<605, 405, 205, 105>>
          [] k = "Potassium" -> <<1049, 755, 505, 255>>
          [] k = "Ratio" -> <<10050, 15050, 20050, 25050>>]

ci_class ==
    [k \in DOMAIN ci_weight |->
        CASE k = "Zinc" -> <<150500, 300500, 500500, 700500, 900500>>
          [] k = "Copper" -> <<50500, 100500, 200500, 400500, 600500>>
          [] k = "Cadmium" -> <<350, 650, 1050, 2050, 4050>>
          [] k = "Lead" -> <<50500, 100500, 150500, 250500, 400500>>
          [] k = "Chromium" -> <<50500, 100500, 150500, 250500, 350500>>
          [] k = "Nickel" -> <<20500, 40500, 80500, 120500, 160500>>]

get_all_property_names == DOMAIN valid_range
get_fi_property_names == DOMAIN fi_class
get_ci_property_names == DOMAIN ci_class

Milli(value) == [n |-> 1000 * value.n, d |-> value.d]

Identity(name, value, unit) == [name |-> name, value |-> value, units |-> unit]

Limits(min_value, max_value) ==
    IF min_value > max_value THEN Raise("ValueError", "Limits.__post_init__")
    ELSE [cls |-> "Limits", min_value |-> min_value, max_value |-> max_value]

\* Limits.validate: TRUE when it raises
validate(limits, identity) ==
    \/ QLtI(identity.value, limits.min_value)
    \/ QGtI(identity.value, limits.max_value)

BasicProperty(identity, valid_limits, compliance_limits) ==
    IF validate(valid_limits, identity)
    THEN Raise("ValueError", "Limits.validate")
    ELSE [cls |-> "BasicProperty", identity |-> identity,
          valid_range |-> valid_limits,
          compliance_range |-> compliance_limits]

FertilityProperty(identity, valid_limits, compliance_limits, fertility) ==
    IF validate(valid_limits, identity)
    THEN Raise("ValueError", "Limits.validate")
    ELSE [cls |-> "FertilityProperty", identity |-> identity,
          valid_range |-> valid_limits,
          compliance_range |-> compliance_limits,
          fertility |-> assign_category(fertility, Milli(identity.value),
                                        FALSE)]

CleanProperty(identity, valid_limits, compliance_limits, clean) ==
    IF validate(valid_limits, identity)
    THEN Raise("ValueError", "Limits.validate")
    ELSE [cls |-> "CleanProperty", identity |-> identity,
          valid_range |-> valid_limits,
          compliance_range |-> compliance_limits,
          clean |-> assign_category(clean, Milli(identity.value), TRUE)]

\* the body of the for loop of Compost.__init__ for one item of inputs
build_property(name, value) ==
    LET identity == Identity(name, value, units[name])
        valid_limits == Limits(valid_range[name][1], valid_range[name][2])
        compliance_limits ==
            Limits(compliance_range[name][1], compliance_range[name][2])
    IN IF name \in get_fi_property_names
       THEN FertilityProperty(identity, valid_limits, compliance_limits,
                              Scores(fi_weight[name], fi_class[name]))
       ELSE IF name \in get_ci_property_names
       THEN CleanProperty(identity, valid_limits, compliance_limits,
                          Scores(ci_weight[name], ci_class[name]))
       ELSE BasicProperty(identity, valid_limits, compliance_limits)

\* inputs["Ratio"] = inputs["Carbon"] / inputs["Nitrogen"] is reached and
\* does not raise
ratio_is_written(inp) ==
    /\ "Ratio" \notin DOMAIN inp
    /\ {"Carbon", "Nitrogen"} \subseteq DOMAIN inp
    /\ inp["Nitrogen"].n # 0

with_ratio(inp) ==
    [k \in DOMAIN inp \cup {"Ratio"} |->
        IF k = "Ratio"
        THEN Ratio(inp["Carbon"].n * inp["Nitrogen"].d,
                   inp["Carbon"].d * inp["Nitrogen"].n)
        ELSE inp[k]]

\* what Compost(inputs) gives the caller: the object or the exception
Compost_object(inp) ==
    IF "Ratio" \in DOMAIN inp THEN Raise("ValueError", "Compost.__init__")
    ELSE IF ~ ({"Carbon", "Nitrogen"} \subseteq DOMAIN inp)
    THEN Raise("KeyError", "Compost.__init__")
    ELSE IF inp["Nitrogen"].n = 0
    THEN Raise("ZeroDivisionError", "Compost.__init__")
    ELSE IF DOMAIN with_ratio(inp) # get_all_property_names
    THEN Raise("ValueError", "Compost.__init__")
    ELSE LET items == with_ratio(inp)
             built == [k \in DOMAIN items |-> build_property(k, items[k])]
         IN IF \E k \in DOMAIN built : IsError(built[k])
            THEN Raise("ValueError", "Limits.validate")
            ELSE [cls |-> "DraftCompost",
                  properties |->
                    [basic |-> [k \in DOMAIN built \ (get_fi_property_names
                                   \cup get_ci_property_names) |-> built[k]],
                     fertility |-> [k \in get_fi_property_names |-> built[k]],
                     clean |-> [k \in get_ci_property_names |-> built[k]]]]

\* mutation: the ratio is written into a copy of the caller's mapping
Compost_init_copy(inp) ==
    [obj |-> Compost_object(inp), inputs |-> inp]

\* Compost.__init__(inputs): the outcome and the caller's mapping afterwards
Compost_init(inp) ==
    [obj |-> Compost_object(inp),
     inputs |-> IF ratio_is_written(inp) THEN with_ratio(inp) ELSE inp]

\* ------------------------------------------------------------------ Init
Init ==
    /\ index = None
    /\ prop = None
    /\ compost = None
    /\ raised = "none"
    /\ result = None
    /\ lastOp = [op |-> "init"]
    /\ scores = None
    /\ caller_inputs = None
    /\ draft = None

Fresh == lastOp.op = "init"

\* ---------------------------------------------------------- Index actions
NewIndex(typ, weight, category_limits) ==
    /\ Fresh
    /\ \E r \in {Index(typ, weight, category_limits)} :
        /\ index' = IF IsError(r) THEN None ELSE r
        /\ raised' = IF IsError(r) THEN r.type ELSE "none"
    /\ lastOp' = [op |-> "Index", typ |-> typ, weight |-> weight,
                  category_limits |-> category_limits]
    /\ UNCHANGED <<prop, compost, result, scores, caller_inputs, draft>>

SetScore(value) ==
    /\ index.cls = "Index"
    /\ index' = set_score(index, value)
    /\ lastOp' = [op |-> "set_score", value |-> value,
                  prior |-> IF HasScore(index) THEN <<index.score>> ELSE <<>>]
    /\ UNCHANGED <<prop, compost, raised, result, scores, caller_inputs, draft>>

\* ------------------------------------------------------- property actions
\* the compliance limits (min, max) a caller passes; one pair is inverted
CompliancePairs == {<<1, 3>>, <<3, 1>>}

Outcome(r) ==
    /\ prop' = IF IsError(r) THEN None ELSE r
    /\ raised' = IF IsError(r) THEN r.type ELSE "none"

NewProperty(value, cl) ==
    /\ Fresh
    /\ LET compliance_limit == Limit(cl[1], cl[2])
           r == IF IsError(compliance_limit) THEN compliance_limit
                ELSE Property("moisture", value, DefaultLimit,
                              compliance_limit, TRUE, TRUE)
       IN Outcome(r)
    /\ lastOp' = [op |-> "Property", value |-> value, cl |-> cl]
    /\ UNCHANGED <<index, compost, result, scores, caller_inputs, draft>>

NewNutritionalProperty(value, cl, typ, weight, category_limits) ==
    /\ Fresh
    /\ \E compliance_limit \in {Limit(cl[1], cl[2])},
          idx \in {Index(typ, weight, category_limits)} :
       \E e \in {FirstError(<<compliance_limit, idx>>)} :
       \E r \in {IF IsError(e) THEN e
                 ELSE NutritionalProperty("nitrogen", value, DefaultLimit,
                                          compliance_limit, TRUE, TRUE, idx)} :
          /\ Outcome(r)
          /\ lastOp' = [op |-> "NutritionalProperty", value |-> value,
                        cl |-> cl, typ |-> typ, weight |-> weight,
                        category_limits |-> category_limits,
                        at |-> IF IsError(r) THEN r.at ELSE "none"]
    /\ UNCHANGED <<index, compost, result, scores, caller_inputs, draft>>

NewHeavyMetalProperty(value, cl, typ, weight, category_limits) ==
    /\ Fresh
    /\ \E compliance_limit \in {Limit(cl[1], cl[2])},
          idx \in {Index(typ, weight, category_limits)} :
       \E e \in {FirstError(<<compliance_limit, idx>>)} :
       \E r \in {IF IsError(e) THEN e
                 ELSE HeavyMetalProperty("zinc", value, DefaultLimit,
                                         compliance_limit, TRUE, TRUE, idx)} :
          /\ Outcome(r)
          /\ lastOp' = [op |-> "HeavyMetalProperty", value |-> value,
                        cl |-> cl, typ |-> typ, weight |-> weight,
                        category_limits |-> category_limits,
                        at |-> IF IsError(r) THEN r.at ELSE "none"]
    /\ UNCHANGED <<index, compost, result, scores, caller_inputs, draft>>

PropSetScore ==
    /\ IsScored(prop)
    /\ prop' = prop_set_score(prop)
    /\ lastOp' = [op |-> "prop.set_score"]
    /\ UNCHANGED <<index, compost, raised, result, scores, caller_inputs, draft>>

PropIsCompliant ==
    /\ prop.cls # "None"
    /\ result' = [cls |-> "bool", val |-> is_compliant(prop)]
    /\ lastOp' = [op |-> "prop.is_compliant"]
    /\ UNCHANGED <<index, prop, compost, raised, scores, caller_inputs, draft>>

\* -------------------------------------------------------- Compost actions
InputNames == BasicNames \cup NutritionalNames \cup HeavyMetalNames
ConfigNames == InputNames \cup {"cn_ratio", "npk"}

DefaultFertilityLimits == <<3, 2, 2, 1>>
DefaultCleanLimits == <<1, 1, 2, 2, 3>>

\* category_limits a configuration file may hold for one property: both
\* directions, both lengths, one list out of order, one list too short
ConfigLimitLists == {<<3, 2, 2, 1>>, <<1, 2, 3, 3>>, <<1, 1, 2, 2, 3>>,
                     <<3, 3, 2, 1, 1>>, <<1, 3, 2, 1>>, <<1, 2, 3>>}

ConfigEntries ==
    [compliance_limit : CompliancePairs, weight : Weights,
     category_limits : ConfigLimitLists]

DefaultEntry(name, weight) ==
    [compliance_limit |-> IF name = "npk" THEN <<1, 9>> ELSE <<1, 3>>,
     weight |-> weight,
     category_limits |-> IF name \in HeavyMetalNames THEN DefaultCleanLimits
                         ELSE DefaultFertilityLimits]

\* the inputs a derived property is computed from
Sources(name) ==
    IF name = "cn_ratio" THEN {"organic_matter", "nitrogen"}
    ELSE IF name = "npk" THEN {"nitrogen", "phosphorus", "potassium"}
    ELSE {name}

BaseValues == {Q(2)}

SampleConfigs(weight, name, entry) ==
    [k \in ConfigNames |-> IF k = name THEN entry ELSE DefaultEntry(k, weight)]

SampleInputs(base, name, value) ==
    [k \in InputNames |-> IF k = name THEN value ELSE base]

Restrict(f, S) == [k \in S |-> f[k]]

CreateFromYaml(configs, inputs) ==
    /\ Fresh
    /\ \E r \in {create_from_yaml(configs, inputs)} :
        /\ compost' = IF IsError(r) THEN None ELSE r
        /\ raised' = IF IsError(r) THEN r.type ELSE "none"
    /\ lastOp' = [op |-> "create_from_yaml", configs |-> configs,
                  inputs |-> inputs]
    /\ UNCHANGED <<index, prop, result, scores, caller_inputs, draft>>

Query(r) ==
    /\ result' = IF IsError(r) THEN None ELSE r
    /\ raised' = IF IsError(r) THEN r.type ELSE "none"

FertilityIndex ==
    /\ compost.cls = "Compost"
    /\ Query(fertility_index(compost.nutritional_properties))
    /\ lastOp' = [op |-> "fertility_index"]
    /\ UNCHANGED <<index, prop, compost, scores, caller_inputs, draft>>

CleanIndex ==
    /\ compost.cls = "Compost"
    /\ Query(clean_index(compost.heavy_metal_properties))
    /\ lastOp' = [op |-> "clean_index"]
    /\ UNCHANGED <<index, prop, compost, scores, caller_inputs, draft>>

IsCompliant ==
    /\ compost.cls = "Compost"
    /\ Query([cls |-> "bool", val |-> compost_is_compliant(compost)])
    /\ lastOp' = [op |-> "is_compliant"]
    /\ UNCHANGED <<index, prop, compost, scores, caller_inputs, draft>>

\* ----------------------------------------------------------- draft actions
NewScores(weight, limits) ==
    /\ Fresh
    /\ \E r \in {Scores(weight, limits)} :
        /\ scores' = IF IsError(r) THEN None ELSE r
        /\ raised' = IF IsError(r) THEN r.type ELSE "none"
    /\ lastOp' = [op |-> "Scores", weight |-> weight, limits |-> limits]
    /\ UNCHANGED <<index, prop, compost, result, caller_inputs, draft>>

AssignCategory(value, clean) ==
    /\ scores.cls = "Scores"
    /\ scores' = assign_category(scores, value, clean)
    /\ lastOp' = [op |-> "assign_category", value |-> value, clean |-> clean]
    /\ UNCHANGED <<index, prop, compost, raised, result, caller_inputs, draft>>

\* the mappings a caller builds: the 14 measured names with one value
\* varied, the same without one name, and the same with "Ratio" given
DraftInputNames == get_all_property_names \ {"Ratio"}

DraftInputs(name, value, shape) ==
    LET full == [k \in DraftInputNames |-> IF k = name THEN value ELSE Q(2)]
    IN IF shape = "without" THEN Restrict(full, DraftInputNames \ {name})
       ELSE IF shape = "with_ratio"
       THEN [k \in DraftInputNames \cup {"Ratio"} |->
                IF k = "Ratio" THEN Q(1) ELSE full[k]]
       ELSE full

NewInputs(mapping) ==
    /\ Fresh
    /\ caller_inputs' = mapping
    /\ lastOp' = [op |-> "inputs"]
    /\ UNCHANGED <<index, prop, compost, raised, result, scores, draft>>

CompostInit ==
    /\ lastOp.op \in {"inputs", "Compost"}
    /\ \E r \in {Compost_init(caller_inputs)} :
        /\ caller_inputs' = r.inputs
        /\ draft' = IF IsError(r.obj) THEN None ELSE r.obj
        /\ raised' = IF IsError(r.obj) THEN r.obj.type ELSE "none"
    /\ lastOp' = [op |-> "Compost", before |-> caller_inputs,
                  prev |-> draft.cls]
    /\ UNCHANGED <<index, prop, compost, result, scores>>

Next ==
    \/ /\ Fresh
       /\ \E typ \in IndexTypes, weight \in Weights, limits \in LimitLists :
             NewIndex(typ, weight, limits)
    \/ \E value \in Values : SetScore(value)
    \/ /\ Fresh
       /\ \E value \in Values, cl \in CompliancePairs : NewProperty(value, cl)
    \/ /\ Fresh
       /\ \E value \in Values, cl \in CompliancePairs, typ \in IndexTypes,
             weight \in Weights, limits \in LimitLists :
             NewNutritionalProperty(value, cl, typ, weight, limits)
    \/ /\ Fresh
       /\ \E value \in Values, cl \in CompliancePairs, typ \in IndexTypes,
             weight \in Weights, limits \in LimitLists :
             NewHeavyMetalProperty(value, cl, typ, weight, limits)
    \/ PropSetScore
    \/ PropIsCompliant
    \/ /\ Fresh
       /\ \E weight \in Weights, base \in BaseValues, name \in ConfigNames,
             entry \in ConfigEntries, value \in Values :
             \E source \in Sources(name) :
                CreateFromYaml(SampleConfigs(weight, name, entry),
                               SampleInputs(base, source, value))
    \/ /\ Fresh
       /\ \E missing \in ConfigNames, base \in BaseValues :
             \/ CreateFromYaml(
                   Restrict(SampleConfigs(1, missing, DefaultEntry(missing, 1)),
                            ConfigNames \ {missing}),
                   SampleInputs(base, missing, base))
             \/ CreateFromYaml(
                   SampleConfigs(1, missing, DefaultEntry(missing, 1)),
                   Restrict(SampleInputs(base, missing, base),
                            InputNames \ {missing}))
    \/ FertilityIndex
    \/ CleanIndex
    \/ IsCompliant
    \/ /\ Fresh
       /\ \E weight \in Weights, limits \in LimitLists :
             NewScores(weight, limits)
    \/ \E value \in Values, clean \in BOOLEAN : AssignCategory(value, clean)
    \/ /\ Fresh
       /\ \E name \in DraftInputNames, value \in Values,
             shape \in {"full", "without", "with_ratio"} :
             NewInputs(DraftInputs(name, value, shape))
    \/ CompostInit

Spec == Init /\ [][Next]_vars

\* ======================================================================
\* Properties
\* ======================================================================
NonDecreasing(s) == \A i, j \in DOMAIN s : i < j => s[i] <= s[j]
NonIncreasing(s) == \A i, j \in DOMAIN s : i < j => s[i] >= s[j]

\* MAX_SCORE minus the number of limits the value lies strictly beyond
ExpectedScore(idx, value) ==
    IF idx.category_type = INCREASING
    THEN MAX_SCORE - Cardinality({i \in DOMAIN idx.category_limits :
                                     QGtI(value, idx.category_limits[i])})
    ELSE MAX_SCORE - Cardinality({i \in DOMAIN idx.category_limits :
                                     QLtI(value, idx.category_limits[i])})

\* C1: after set_score(value) the score is MAX_SCORE minus the number of
\* limits b with value > b (INCREASING) or value < b (DECREASING); every
\* limit counts and a limit equal to the value does not.
C1_ScoreCountsLimits ==
    lastOp.op = "set_score" => index.score = ExpectedScore(index, lastOp.value)

C1_Witness ==
    /\ lastOp.op = "set_score"
    /\ index.category_type = DECREASING
    /\ \E i \in DOMAIN index.category_limits :
          Q(index.category_limits[i]) = lastOp.value
    /\ index.score <= MAX_SCORE - 2

\* C2: a score, once set, lies in [MAX_SCORE - len(category_limits),
\* MAX_SCORE], after any number of set_score calls.
C2_ScoreInRange ==
    (index.cls = "Index" /\ HasScore(index)) =>
        /\ index.score >= MAX_SCORE - Len(index.category_limits)
        /\ index.score <= MAX_SCORE

C2_Witness ==
    /\ lastOp.op = "set_score"
    /\ lastOp.prior # <<>>
    /\ Len(index.category_limits) >= 4
    /\ index.score = MAX_SCORE - Len(index.category_limits)

\* C3: set_score(v2) after set_score(v1) leaves the score set_score(v2)
\* gives on a newly constructed Index with the same limits, and set_score
\* changes none of typ, weight, category_limits, category_type.
C3_RescoreIgnoresHistory ==
    [][lastOp'.op = "set_score" =>
          /\ index'.score =
                set_score(Index(index.typ, index.weight,
                                index.category_limits), lastOp'.value).score
          /\ index'.typ = index.typ
          /\ index'.weight = index.weight
          /\ index'.category_limits = index.category_limits
          /\ index'.category_type = index.category_type]_vars

C3_Witness ==
    /\ lastOp.op = "set_score"
    /\ lastOp.prior # <<>>
    /\ lastOp.prior[1] # index.score
    /\ index.score < MAX_SCORE

\* ---------------------------------------------------------------- Compost
OutsideCompliance(p) ==
    \/ QLtI(p.value, p.compliance_limit.min)
    \/ QGtI(p.value, p.compliance_limit.max)

SomeCheckedOutside(c) ==
    \/ \E k \in BasicNames :
          c.properties[k].use_compliance
             /\ OutsideCompliance(c.properties[k])
    \/ \E k \in NutritionalNames :
          c.nutritional_properties[k].use_compliance
             /\ OutsideCompliance(c.nutritional_properties[k])
    \/ \E k \in HeavyMetalNames :
          c.heavy_metal_properties[k].use_compliance
             /\ OutsideCompliance(c.heavy_metal_properties[k])
    \/ \E k \in DerivedFields :
          c.derived_properties[k].use_compliance
             /\ OutsideCompliance(c.derived_properties[k])

\* C4: Compost.is_compliant is false exactly when some checked property of
\* the basic, nutritional, heavy-metal or derived group has a value
\* strictly below its compliance minimum or strictly above its maximum.
C4_CompliantIffNoneOutside ==
    lastOp.op = "is_compliant" =>
        (result.val = FALSE <=> SomeCheckedOutside(compost))

C4_Witness ==
    /\ lastOp.op = "is_compliant"
    /\ result.val = TRUE
    /\ \E k \in BasicNames :
          compost.properties[k].value
             = Q(compost.properties[k].compliance_limit.max)
    /\ compost.derived_properties["cn_ratio"].value
          = Q(compost.derived_properties["cn_ratio"].compliance_limit.min)

WS(idx) == idx.weight * idx.score

NutritionalScoreSum(c) ==
    LET np == c.nutritional_properties IN
    WS(np["organic_matter"].fertilization_index)
      + WS(np["nitrogen"].fertilization_index)
      + WS(np["phosphorus"].fertilization_index)
      + WS(np["potassium"].fertilization_index)

NutritionalWeightSum(c) ==
    LET np == c.nutritional_properties IN
    np["organic_matter"].fertilization_index.weight
      + np["nitrogen"].fertilization_index.weight
      + np["phosphorus"].fertilization_index.weight
      + np["potassium"].fertilization_index.weight

\* C5: fertility_index is sum(score * weight) / sum(weight) over the four
\* nutritional properties and the derived carbon/nitrogen ratio.
C5_FertilityIncludesRatio ==
    lastOp.op = "fertility_index" =>
        LET cn == compost.derived_properties["cn_ratio"].fertilization_index
            num == NutritionalScoreSum(compost) + WS(cn)
            den == NutritionalWeightSum(compost) + cn.weight
        IN IF den = 0 THEN raised = "ZeroDivisionError"
           ELSE /\ raised = "none"
                /\ result.n * den = num * result.d

HeavyMetalScoreSum(c) ==
    LET hm == c.heavy_metal_properties IN
    WS(hm["zinc"].clean_index) + WS(hm["copper"].clean_index)
      + WS(hm["cadmium"].clean_index) + WS(hm["lead"].clean_index)
      + WS(hm["chromium"].clean_index) + WS(hm["nickel"].clean_index)
      + WS(hm["arsenic"].clean_index) + WS(hm["mercury"].clean_index)

HeavyMetalWeightSum(c) ==
    LET hm == c.heavy_metal_properties IN
    hm["zinc"].clean_index.weight + hm["copper"].clean_index.weight
      + hm["cadmium"].clean_index.weight + hm["lead"].clean_index.weight
      + hm["chromium"].clean_index.weight + hm["nickel"].clean_index.weight
      + hm["arsenic"].clean_index.weight + hm["mercury"].clean_index.weight

\* C6: clean_index is sum(score * weight) / sum(weight) over the eight
\* heavy-metal properties and over nothing else.
C6_CleanOverHeavyMetals ==
    (lastOp.op = "clean_index" /\ raised = "none") =>
        /\ HeavyMetalWeightSum(compost) # 0
        /\ result.n * HeavyMetalWeightSum(compost)
              = HeavyMetalScoreSum(compost) * result.d

C6_Witness ==
    /\ lastOp.op = "clean_index"
    /\ raised = "none"
    /\ result.n % result.d # 0
    /\ \E k \in NutritionalNames :
          compost.nutritional_properties[k].fertilization_index.score
             # MAX_SCORE

\* ---------------------------------------------------- construction checks
RequiredCount(typ) == IF typ = FERTILITY THEN 4 ELSE 5

\* C7 as stated: Index(...) with a number of category limits that does not
\* match its typ (4 for FERTILITY, 5 for CLEAN) fails in Index construction.
C7_IndexChecksCount ==
    (lastOp.op = "Index"
        /\ Len(lastOp.category_limits) # RequiredCount(lastOp.typ)) =>
        /\ index = None
        /\ raised = "ValueError"

\* every scored property of a Compost holds an Index of its own kind with
\* the required number of limits
CompostCountsMatch(c) ==
    /\ \A k \in NutritionalNames :
          /\ c.nutritional_properties[k].fertilization_index.typ = FERTILITY
          /\ Len(c.nutritional_properties[k].fertilization_index
                    .category_limits) = 4
    /\ \A k \in HeavyMetalNames :
          /\ c.heavy_metal_properties[k].clean_index.typ = CLEAN
          /\ Len(c.heavy_metal_properties[k].clean_index.category_limits) = 5
    /\ c.derived_properties["cn_ratio"].fertilization_index.typ = FERTILITY
    /\ Len(c.derived_properties["cn_ratio"].fertilization_index
              .category_limits) = 4

\* C7 (amended): the count is checked where the Index is given to a scored
\* property: NutritionalProperty fails with ValueError unless its Index has
\* exactly 4 limits, HeavyMetalProperty unless it has exactly 5, so every
\* scored property that exists holds an Index with the required count.
C7_PropertyChecksCount ==
    /\ (lastOp.op = "NutritionalProperty" /\ Len(lastOp.category_limits) # 4)
          => (prop = None /\ raised = "ValueError")
    /\ (lastOp.op = "HeavyMetalProperty" /\ Len(lastOp.category_limits) # 5)
          => (prop = None /\ raised = "ValueError")
    /\ prop.cls = "NutritionalProperty"
          => Len(prop.fertilization_index.category_limits) = 4
    /\ prop.cls = "HeavyMetalProperty"
          => Len(prop.clean_index.category_limits) = 5
    /\ compost.cls = "Compost" => CompostCountsMatch(compost)

C7_Witness ==
    /\ lastOp.op = "HeavyMetalProperty"
    /\ lastOp.typ = CLEAN
    /\ Len(lastOp.category_limits) = 3
    /\ lastOp.at = "HeavyMetalProperty.__post_init__"
    /\ prop = None
    /\ raised = "ValueError"

\* C8 as stated: limits in neither order fail; a non-decreasing list gives
\* INCREASING and a non-increasing list gives DECREASING.
C8_DirectionAsStated ==
    lastOp.op = "Index" =>
        LET limits == lastOp.category_limits IN
        /\ (~ NonDecreasing(limits) /\ ~ NonIncreasing(limits))
              => (index = None /\ raised = "ValueError")
        /\ NonDecreasing(limits)
              => (index.cls = "Index" /\ index.category_type = INCREASING)
        /\ NonIncreasing(limits)
              => (index.cls = "Index" /\ index.category_type = DECREASING)

\* C8 (amended): limits in neither order fail with ValueError and leave no
\* Index; a non-decreasing list (a constant list included)
\* gives INCREASING; a non-increasing list that is not also
\* non-decreasing gives DECREASING; a new Index has no score.
C8_DirectionFromOrder ==
    lastOp.op = "Index" =>
        LET limits == lastOp.category_limits IN
        /\ (~ NonDecreasing(limits) /\ ~ NonIncreasing(limits))
              => (index = None /\ raised = "ValueError")
        /\ NonDecreasing(limits)
              => /\ index.cls = "Index"
                 /\ index.category_type = INCREASING
                 /\ ~ HasScore(index)
        /\ (NonIncreasing(limits) /\ ~ NonDecreasing(limits))
              => /\ index.cls = "Index"
                 /\ index.category_type = DECREASING
                 /\ ~ HasScore(index)

C8_Witness ==
    /\ lastOp.op = "Index"
    /\ Len(lastOp.category_limits) >= 3
    /\ NonDecreasing(lastOp.category_limits)
    /\ NonIncreasing(lastOp.category_limits)
    /\ index.cls = "Index"
    /\ index.category_type = INCREASING

WithinValidity(p) ==
    /\ QGeqI(p.value, p.theoretical_limit.min)
    /\ QLeqI(p.value, p.theoretical_limit.max)

\* C9: no property exists whose value lies outside its theoretical limit.
C9_ValueWithinValidity ==
    /\ prop.cls # "None" => WithinValidity(prop)
    /\ compost.cls = "Compost" =>
          /\ \A k \in BasicNames : WithinValidity(compost.properties[k])
          /\ \A k \in NutritionalNames :
                WithinValidity(compost.nutritional_properties[k])
          /\ \A k \in HeavyMetalNames :
                WithinValidity(compost.heavy_metal_properties[k])
          /\ \A k \in DerivedFields :
                WithinValidity(compost.derived_properties[k])

Scored(p, typ) ==
    /\ IndexOf(p).typ = typ
    /\ HasScore(IndexOf(p))
    /\ IndexOf(p).score = ExpectedScore(IndexOf(p), p.value)

\* C10: a scored property is not constructed with an Index of the other
\* kind (NutritionalProperty needs FERTILITY, HeavyMetalProperty CLEAN),
\* and every scored property that exists, alone or in a Compost, carries
\* the score of its own value.
C10_KindAndScoreAtConstruction ==
    /\ (lastOp.op = "NutritionalProperty" /\ lastOp.typ # FERTILITY)
          => (prop = None /\ raised = "ValueError")
    /\ (lastOp.op = "HeavyMetalProperty" /\ lastOp.typ # CLEAN)
          => (prop = None /\ raised = "ValueError")
    /\ prop.cls = "NutritionalProperty" => Scored(prop, FERTILITY)
    /\ prop.cls = "HeavyMetalProperty" => Scored(prop, CLEAN)
    /\ compost.cls = "Compost" =>
          /\ \A k \in NutritionalNames :
                Scored(compost.nutritional_properties[k], FERTILITY)
          /\ \A k \in HeavyMetalNames :
                Scored(compost.heavy_metal_properties[k], CLEAN)
          /\ Scored(compost.derived_properties["cn_ratio"], FERTILITY)

C10_Witness ==
    /\ lastOp.op = "NutritionalProperty"
    /\ prop.cls = "NutritionalProperty"
    /\ prop.fertilization_index.category_type = INCREASING
    /\ prop.fertilization_index.score = MAX_SCORE - 2

\* ------------------------------------------------------ weights, division
\* C11: Index(...) with weight <= 0 fails with an error, so every Index
\* that enters fertility_index or clean_index has weight > 0.
C11_WeightMustBePositive ==
    /\ (lastOp.op = "Index" /\ lastOp.weight <= 0)
          => (index = None /\ raised = "ValueError")
    /\ compost.cls = "Compost" =>
          /\ \A k \in NutritionalNames :
                compost.nutritional_properties[k].fertilization_index.weight > 0
          /\ \A k \in HeavyMetalNames :
                compost.heavy_metal_properties[k].clean_index.weight > 0

\* C12: with a total weight of zero, fertility_index and clean_index raise
\* ZeroDivisionError and return nothing; otherwise they return a number.
C12_ZeroWeightRaises ==
    /\ lastOp.op = "fertility_index" =>
          IF NutritionalWeightSum(compost) = 0
          THEN raised = "ZeroDivisionError" /\ result = None
          ELSE raised = "none" /\ result.cls = "float"
    /\ lastOp.op = "clean_index" =>
          IF HeavyMetalWeightSum(compost) = 0
          THEN raised = "ZeroDivisionError" /\ result = None
          ELSE raised = "none" /\ result.cls = "float"

C12_Witness ==
    /\ lastOp.op = "clean_index"
    /\ HeavyMetalWeightSum(compost) = 0
    /\ NutritionalWeightSum(compost) # 0
    /\ raised = "ZeroDivisionError"
    /\ result = None

\* --------------------------------------------------------- missing names
\* C13: create_from_yaml with a required name absent from the configuration
\* or from the inputs raises and returns no Compost; a Compost that is
\* returned holds every property of the four groups.
C13_AllOrNothing ==
    /\ (lastOp.op = "create_from_yaml"
           /\ ~ (ConfigNames \subseteq DOMAIN lastOp.configs
                    /\ InputNames \subseteq DOMAIN lastOp.inputs))
          => (compost = None /\ raised # "none")
    /\ compost.cls = "Compost" =>
          /\ DOMAIN compost.properties = BasicNames
          /\ DOMAIN compost.nutritional_properties = NutritionalNames
          /\ DOMAIN compost.heavy_metal_properties = HeavyMetalNames
          /\ DOMAIN compost.derived_properties = DerivedFields
          /\ \A k \in BasicNames : compost.properties[k].cls = "Property"
          /\ \A k \in NutritionalNames :
                compost.nutritional_properties[k].cls = "NutritionalProperty"
          /\ \A k \in HeavyMetalNames :
                compost.heavy_metal_properties[k].cls = "HeavyMetalProperty"
          /\ compost.derived_properties["cn_ratio"].cls = "NutritionalProperty"
          /\ compost.derived_properties["npk_ratio"].cls = "Property"

C13_Witness ==
    /\ lastOp.op = "create_from_yaml"
    /\ ConfigNames \subseteq DOMAIN lastOp.configs
    /\ "mercury" \notin DOMAIN lastOp.inputs
    /\ compost = None
    /\ raised = "KeyError"

\* ------------------------------------------------------- the two scorings
\* C14: on 4 limits with clean=False, or 5 limits with clean=True,
\* assign_category gives the score Index.set_score gives on the same limits
\* when the value equals no limit, and exactly k less when the value equals
\* k limits.
C14_EarlyExitAgreesOffLimits ==
    (lastOp.op = "assign_category"
        /\ Len(scores.limits) = (IF lastOp.clean THEN 5 ELSE 4)) =>
        LET idx == set_score(Index(IF lastOp.clean THEN CLEAN ELSE FERTILITY,
                                   scores.weight, scores.limits),
                             lastOp.value)
            k == Cardinality({i \in DOMAIN scores.limits :
                                 Q(scores.limits[i]) = lastOp.value})
        IN scores.category = idx.score - k

C14_Witness ==
    /\ lastOp.op = "assign_category"
    /\ lastOp.clean
    /\ Len(scores.limits) = 5
    /\ ~ scores.ascending
    /\ Cardinality({i \in DOMAIN scores.limits :
                       Q(scores.limits[i]) = lastOp.value}) >= 2
    /\ scores.category < MAX_SCORE - 2

\* ------------------------------------------------- the caller's mapping
\* C15: Compost(inputs) of the draft writes "Ratio" = Carbon / Nitrogen
\* into the caller's mapping before the key check, so whenever the ratio is
\* computed the mapping holds it afterwards, whether the call succeeds or
\* fails; a call on a mapping that holds "Ratio" fails with ValueError; all
\* other keys and values are left as they were.
C15_RatioWrittenToCaller ==
    lastOp.op = "Compost" =>
        LET before == lastOp.before IN
        /\ ("Ratio" \notin DOMAIN before
               /\ {"Carbon", "Nitrogen"} \subseteq DOMAIN before
               /\ before["Nitrogen"] # Q(0))
              => /\ "Ratio" \in DOMAIN caller_inputs
                 /\ caller_inputs["Ratio"].n * before["Nitrogen"].n
                       * before["Carbon"].d
                    = before["Carbon"].n * caller_inputs["Ratio"].d
                       * before["Nitrogen"].d
        /\ "Ratio" \in DOMAIN before
              => /\ draft = None
                 /\ raised = "ValueError"
                 /\ caller_inputs = before
        /\ DOMAIN before \subseteq DOMAIN caller_inputs
        /\ DOMAIN caller_inputs \subseteq DOMAIN before \cup {"Ratio"}
        /\ \A k \in DOMAIN before : caller_inputs[k] = before[k]

C15_Witness ==
    /\ lastOp.op = "Compost"
    /\ lastOp.prev = "DraftCompost"
    /\ "Ratio" \in DOMAIN lastOp.before
    /\ draft = None
    /\ raised = "ValueError"
====
